---- MODULE Spec2Model ----
(***************************************************************************)
(* Model of src/main.cpp: an Arduino sketch that, after setup(), runs      *)
(* loop() forever.  Each run of loop() draws a fake temperature, builds a  *)
(* dweet.io request path, issues one HTTP GET through the global           *)
(* HttpClient, prints the status code and the body on Serial and waits     *)
(* five seconds.                                                           *)
(*                                                                         *)
(* Strings are sequences of one-character strings, so that concatenation   *)
(* and the decimal rendering of an int are computed, not assumed.          *)
(* Serial is the sequence of finished lines plus the line being written.   *)
(***************************************************************************)
EXTENDS Integers, Sequences, FiniteSets, TLC

\* ---------------------------------------------------------------- bounds
\* Number of runs of loop() that are observed.
MaxIter == 2
\* Longest time (ms) the blocking GET may take.
MaxNetDelay == 1

\* ------------------------------------------------------- program constants
server == <<"d", "w", "e", "e", "t", ".", "i", "o">>
port == 80
thingName == <<"e", "s", "p", "3", "2", "-", "s", "o", "f", "t", "w", "a", "r", "e", "-", "o", "n", "l", "y", "-", "d", "e", "m", "o">>
UrlBase == <<"/", "d", "w", "e", "e", "t", "/", "f", "o", "r", "/">>
UrlQuery == <<"?", "t", "e", "m", "p", "e", "r", "a", "t", "u", "r", "e", "=">>
Banner == <<"E", "S", "P", "3", "2", " ", "R", "E", "S", "T", " ", "A", "P", "I", " ", "S", "i", "m", "u", "l", "a", "t", "i", "o", "n", " ", "S", "t", "a", "r", "t", "e", "d">>
SendingMsg == <<"S", "e", "n", "d", "i", "n", "g", " ", "d", "a", "t", "a", " ", "t", "o", " ", "d", "w", "e", "e", "t", ".", "i", "o", ".", ".", ".">>
StatusLabel == <<"S", "t", "a", "t", "u", "s", " ", "C", "o", "d", "e", ":", " ">>
ResponseLabel == <<"R", "e", "s", "p", "o", "n", "s", "e", ":">>
RandomMin == 20
RandomMax == 40
SetupDelayMs == 1000
LoopDelayMs == 5000

\* ------------------------------------------------------------ environment
\* What the server / the client library can hand back for one GET: a 2xx
\* answer, a non-2xx answer, and two failures reported as negative
\* sentinel codes with an empty body.
OkBody == <<"{", "\"", "o", "k", "\"", ":", "t", "r", "u", "e", "}">>
NotFoundBody == <<"N", "o", "t", " ", "F", "o", "u", "n", "d">>
Responses ==
    { [status |-> 200, body |-> OkBody],
      [status |-> 404, body |-> NotFoundBody],
      [status |-> 0 - 2, body |-> <<>>],
      [status |-> 0 - 3, body |-> <<>>] }
NetDurations == 0..MaxNetDelay

\* ------------------------------------------------------------------ state
VARIABLES
    pc,           \* position of the sketch: "setup" or a statement of loop()
    now,          \* elapsed time in ms
    iter,         \* number of finished runs of loop()
    sensorValue,  \* local of loop()
    url,          \* local of loop()
    statusCode,   \* local of loop()
    response,     \* local of loop()
    client,       \* the global HttpClient
    Serial,       \* the serial output: [lines, cur]
    request,      \* requests put on the wire during the current run of loop()
    gets,         \* one record per GET issued so far: [at, dur, status, body]
    starts,       \* per run of loop(): start time and lines printed before it
    logDone,      \* time at which every run of loop() printed the body
    events        \* operations performed in the current run of loop()

vars == <<pc, now, iter, sensorValue, url, statusCode, response, client,
          Serial, request, gets, starts, logDone, events>>

\* --------------------------------------------------------- library pieces
DigitChar == <<"0", "1", "2", "3", "4", "5", "6", "7", "8", "9">>

RECURSIVE utoa(_)
utoa(n) == IF n < 10 THEN <<DigitChar[n + 1]>>
           ELSE utoa(n \div 10) \o <<DigitChar[(n % 10) + 1]>>

\* Mutant of itoa: fixed-width rendering padded with zeros.
itoaPadded(n) ==
    IF n < 0 THEN <<"-">> \o utoa(0 - n)
    ELSE IF n < 100 THEN <<"0">> \o utoa(n) ELSE utoa(n)

\* Decimal rendering used by String::operator+=(int) and Print::println(int).
itoa(n) == IF n < 0 THEN <<"-">> \o utoa(0 - n) ELSE utoa(n)

\* Mutant of random: upper bound taken as inclusive.
randomInclusive(howsmall, howbig) == howsmall..howbig

\* random(howsmall, howbig): the values the call can return.
random(howsmall, howbig) == howsmall..(howbig - 1)

\* Serial.print(s) and Serial.println(s).
print(S, s) == [S EXCEPT !.cur = @ \o s]
println(S, s) == [lines |-> Append(S.lines, S.cur \o s), cur |-> <<>>]

\* ------------------------------------------------------------------- Init
Init ==
    /\ pc = "setup"
    /\ now = 0
    /\ iter = 0
    /\ sensorValue = 0
    /\ url = <<>>
    /\ statusCode = 0
    /\ response = <<>>
    /\ client = [host |-> server, port |-> port, status |-> 0, body |-> <<>>]
    /\ Serial = [lines |-> <<>>, cur |-> <<>>]
    /\ request = <<>>
    /\ gets = <<>>
    /\ starts = <<>>
    /\ logDone = <<>>
    /\ events = <<>>

\* ---------------------------------------------------------------- actions
\* setup(): Serial.begin, delay(1000), banner.
setup ==
    /\ pc = "setup"
    /\ now' = now + SetupDelayMs
    /\ Serial' = println(Serial, Banner)
    /\ pc' = "random"
    /\ UNCHANGED <<iter, sensorValue, url, statusCode, response, client,
                   request, gets, starts, logDone, events>>

\* int sensorValue = random(20, 40);
GenerateValue ==
    /\ pc = "random"
    /\ iter < MaxIter
    /\ \E v \in random(RandomMin, RandomMax) : sensorValue' = v
    /\ starts' = Append(starts, [at |-> now, lines |-> Len(Serial.lines)])
    /\ pc' = "url"
    /\ UNCHANGED <<now, iter, url, statusCode, response, client, Serial,
                   request, gets, logDone, events>>

\* Mutant of BuildUrl: the "Sending" message is skipped.
BuildUrlSkipsSending ==
    /\ pc = "url"
    /\ url' = ((UrlBase \o thingName) \o UrlQuery) \o itoa(sensorValue)
    /\ pc' = "get"
    /\ UNCHANGED <<now, iter, sensorValue, statusCode, response, client,
                   Serial, request, gets, starts, logDone, events>>

\* String url = "/dweet/for/"; url += thingName; url += "?temperature=";
\* url += sensorValue;
BuildUrl ==
    /\ pc = "url"
    /\ url' = ((UrlBase \o thingName) \o UrlQuery) \o itoa(sensorValue)
    /\ pc' = "sending"
    /\ UNCHANGED <<now, iter, sensorValue, statusCode, response, client,
                   Serial, request, gets, starts, logDone, events>>

\* Serial.println("Sending data to dweet.io...");
LogSending ==
    /\ pc = "sending"
    /\ Serial' = println(Serial, SendingMsg)
    /\ events' = Append(events, "println:sending")
    /\ pc' = "get"
    /\ UNCHANGED <<now, iter, sensorValue, url, statusCode, response, client,
                   request, gets, starts, logDone>>

\* Mutant of ClientGet: a failed GET is issued once more.
ClientGetRetry ==
    /\ pc = "get"
    /\ \E r \in Responses, d \in NetDurations :
          /\ client' = [client EXCEPT !.status = r.status, !.body = r.body]
          /\ gets' = Append(gets, [at |-> now, dur |-> d,
                                   status |-> r.status, body |-> r.body])
          /\ now' = now + d
          /\ pc' = IF r.status < 0 /\ request = <<>> THEN "get" ELSE "status"
    /\ request' = Append(request, [host |-> client.host, port |-> client.port,
                                   path |-> url])
    /\ events' = Append(events, "get")
    /\ UNCHANGED <<iter, sensorValue, url, statusCode, response, Serial,
                   starts, logDone>>

\* Mutant of ClientGet: a failed GET leaves the previous response in the
\* client.
ClientGetStale ==
    /\ pc = "get"
    /\ \E r \in Responses, d \in NetDurations :
          /\ client' = IF r.status < 0 THEN client
                        ELSE [client EXCEPT !.status = r.status,
                                            !.body = r.body]
          /\ gets' = Append(gets, [at |-> now, dur |-> d,
                                   status |-> r.status, body |-> r.body])
          /\ now' = now + d
    /\ request' = Append(request, [host |-> client.host, port |-> client.port,
                                   path |-> url])
    /\ events' = Append(events, "get")
    /\ pc' = "status"
    /\ UNCHANGED <<iter, sensorValue, url, statusCode, response, Serial,
                   starts, logDone>>

\* client.get(url): one blocking GET to client.host:client.port; the
\* outcome and the time it takes are the environment's choice.
ClientGet ==
    /\ pc = "get"
    /\ \E r \in Responses, d \in NetDurations :
          /\ client' = [client EXCEPT !.status = r.status, !.body = r.body]
          /\ gets' = Append(gets, [at |-> now, dur |-> d,
                                   status |-> r.status, body |-> r.body])
          /\ now' = now + d
    /\ request' = Append(request, [host |-> client.host, port |-> client.port,
                                   path |-> url])
    /\ events' = Append(events, "get")
    /\ pc' = "status"
    /\ UNCHANGED <<iter, sensorValue, url, statusCode, response, Serial,
                   starts, logDone>>

\* int statusCode = client.responseStatusCode();
ReadStatus ==
    /\ pc = "status"
    /\ statusCode' = client.status
    /\ events' = Append(events, "responseStatusCode")
    /\ pc' = "body"
    /\ UNCHANGED <<now, iter, sensorValue, url, response, client, Serial,
                   request, gets, starts, logDone>>

\* String response = client.responseBody();
ReadBody ==
    /\ pc = "body"
    /\ response' = client.body
    /\ events' = Append(events, "responseBody")
    /\ pc' = "printStatus"
    /\ UNCHANGED <<now, iter, sensorValue, url, statusCode, client, Serial,
                   request, gets, starts, logDone>>

\* Mutant of LogStatus: only the number is printed.
LogStatusNoLabel ==
    /\ pc = "printStatus"
    /\ Serial' = println(Serial, itoa(statusCode))
    /\ events' = Append(events, "println:status")
    /\ pc' = "printLabel"
    /\ UNCHANGED <<now, iter, sensorValue, url, statusCode, response, client,
                   request, gets, starts, logDone>>

\* Mutant of LogStatus: an error status stops the sketch.
LogStatusAbortsOnError ==
    /\ pc = "printStatus"
    /\ Serial' = println(print(Serial, StatusLabel), itoa(statusCode))
    /\ events' = Append(events, "println:status")
    /\ pc' = IF statusCode < 0 THEN "halted" ELSE "printLabel"
    /\ UNCHANGED <<now, iter, sensorValue, url, statusCode, response, client,
                   request, gets, starts, logDone>>

\* Serial.print("Status Code: "); Serial.println(statusCode);
LogStatus ==
    /\ pc = "printStatus"
    /\ Serial' = println(print(Serial, StatusLabel), itoa(statusCode))
    /\ events' = Append(events, "println:status")
    /\ pc' = "printLabel"
    /\ UNCHANGED <<now, iter, sensorValue, url, statusCode, response, client,
                   request, gets, starts, logDone>>

\* Serial.println("Response:");
LogResponseLabel ==
    /\ pc = "printLabel"
    /\ Serial' = println(Serial, ResponseLabel)
    /\ events' = Append(events, "println:label")
    /\ pc' = "printBody"
    /\ UNCHANGED <<now, iter, sensorValue, url, statusCode, response, client,
                   request, gets, starts, logDone>>

\* Mutant of LogBody: an empty body is not printed.
LogBodySkipsEmpty ==
    /\ pc = "printBody"
    /\ Serial' = IF response = <<>> THEN Serial ELSE println(Serial, response)
    /\ logDone' = Append(logDone, now)
    /\ events' = Append(events, "println:body")
    /\ pc' = "delay"
    /\ UNCHANGED <<now, iter, sensorValue, url, statusCode, response, client,
                   request, gets, starts>>

\* Serial.println(response);
LogBody ==
    /\ pc = "printBody"
    /\ Serial' = println(Serial, response)
    /\ logDone' = Append(logDone, now)
    /\ events' = Append(events, "println:body")
    /\ pc' = "delay"
    /\ UNCHANGED <<now, iter, sensorValue, url, statusCode, response, client,
                   request, gets, starts>>

\* Mutant of Delay: the wait is 500 ms.
DelayShort ==
    /\ pc = "delay"
    /\ now' = now + 500
    /\ iter' = iter + 1
    /\ sensorValue' = 0
    /\ url' = <<>>
    /\ statusCode' = 0
    /\ response' = <<>>
    /\ request' = <<>>
    /\ events' = <<>>
    /\ pc' = "random"
    /\ UNCHANGED <<client, Serial, gets, starts, logDone>>

\* Mutant of Delay: loop() is not entered again.
DelayHalts ==
    /\ pc = "delay"
    /\ now' = now + LoopDelayMs
    /\ iter' = iter + 1
    /\ sensorValue' = 0
    /\ url' = <<>>
    /\ statusCode' = 0
    /\ response' = <<>>
    /\ request' = <<>>
    /\ events' = <<>>
    /\ pc' = "halted"
    /\ UNCHANGED <<client, Serial, gets, starts, logDone>>

\* delay(5000); loop() returns, its locals die, and it is entered again.
Delay ==
    /\ pc = "delay"
    /\ now' = now + LoopDelayMs
    /\ iter' = iter + 1
    /\ sensorValue' = 0
    /\ url' = <<>>
    /\ statusCode' = 0
    /\ response' = <<>>
    /\ request' = <<>>
    /\ events' = <<>>
    /\ pc' = "random"
    /\ UNCHANGED <<client, Serial, gets, starts, logDone>>

loop ==
    \/ GenerateValue
    \/ BuildUrl
    \/ LogSending
    \/ ClientGet
    \/ ReadStatus
    \/ ReadBody
    \/ LogStatus
    \/ LogResponseLabel
    \/ LogBody
    \/ Delay

Next == setup \/ loop

Spec == Init /\ [][Next]_vars

\* The processor keeps executing the sketch: every blocking call returns.
FairSpec == Spec /\ WF_vars(Next)

\* ------------------------------------------------- vocabulary of the claims
PathPrefix == <<"/", "d", "w", "e", "e", "t", "/", "f", "o", "r", "/", "e", "s", "p", "3", "2", "-", "s", "o", "f", "t", "w", "a", "r", "e", "-", "o", "n", "l", "y", "-", "d", "e", "m", "o", "?", "t", "e", "m", "p", "e", "r", "a", "t", "u", "r", "e", "=">>
DweetHost == <<"d", "w", "e", "e", "t", ".", "i", "o">>
StatusLine200 == <<"S", "t", "a", "t", "u", "s", " ", "C", "o", "d", "e", ":", " ", "2", "0", "0">>
Bare200 == <<"2", "0", "0">>
OkTrueBody == <<"{", "\"", "o", "k", "\"", ":", "t", "r", "u", "e", "}">>

IsDigit(c) == c \in {"0", "1", "2", "3", "4", "5", "6", "7", "8", "9"}
DigitVal(c) == CHOOSE d \in 0..9 : DigitChar[d + 1] = c

RECURSIVE DecVal(_)
DecVal(s) == IF s = <<>> THEN 0
             ELSE DecVal(SubSeq(s, 1, Len(s) - 1)) * 10 + DigitVal(s[Len(s)])

\* s is the decimal numeral of the natural number v: digits only, no sign,
\* no leading zero.
IsDecimalOf(s, v) ==
    /\ Len(s) >= 1
    /\ \A i \in 1..Len(s) : IsDigit(s[i])
    /\ (Len(s) > 1 => s[1] # "0")
    /\ DecVal(s) = v

\* s is the decimal numeral of the integer v, with a leading "-" iff v < 0.
IsSignedDecimalOf(s, v) ==
    IF v < 0 THEN Len(s) >= 2 /\ s[1] = "-" /\ IsDecimalOf(Tail(s), 0 - v)
    ELSE IsDecimalOf(s, v)

IsPrefix(s, t) == Len(s) <= Len(t) /\ SubSeq(t, 1, Len(s)) = s
Suffix(t, n) == SubSeq(t, n + 1, Len(t))
Last(s) == s[Len(s)]

AfterRandom == {"url", "sending", "get", "status", "body", "printStatus",
                "printLabel", "printBody", "delay"}
AfterGet == {"status", "body", "printStatus", "printLabel", "printBody",
             "delay"}
Failed(g) == g.status < 0

\* Lines printed so far by the current run of loop().
IterLines == Suffix(Serial.lines, Last(starts).lines)

\* Number of lines the current run of loop() has printed at position p.
LinesAt(p) ==
    CASE p \in {"setup", "random", "url", "sending"} -> 0
      [] p \in {"get", "status", "body", "printStatus"} -> 1
      [] p = "printLabel" -> 2
      [] p = "printBody" -> 3
      [] OTHER -> 4

ClientOrder == <<"println:sending", "get", "responseStatusCode",
                 "responseBody", "println:status", "println:label",
                 "println:body">>

\* ----------------------------------------------------------------- claims

\* C1: in every run of loop() the generated value v satisfies 20 <= v < 40,
\* and every request of that run embeds exactly that value.
C1_ValueInRange ==
    /\ pc \in AfterRandom => (20 <= sensorValue /\ sensorValue < 40)
    /\ \A i \in 1..Len(request) :
          /\ Len(request[i].path) > Len(PathPrefix)
          /\ DecVal(Suffix(request[i].path, Len(PathPrefix))) = sensorValue
          /\ 20 <= sensorValue /\ sensorValue < 40

C1_Witness == pc = "status" /\ Len(request) = 1 /\ sensorValue = 39

\* C2: the path given to client.get is the literal
\* "/dweet/for/esp32-software-only-demo?temperature=" followed by the
\* decimal numeral of the value (no sign, no leading zero), and the request
\* goes to dweet.io, port 80.
C2_RequestShape ==
    \A i \in 1..Len(request) :
        /\ request[i].host = DweetHost
        /\ request[i].port = 80
        /\ IsPrefix(PathPrefix, request[i].path)
        /\ IsDecimalOf(Suffix(request[i].path, Len(PathPrefix)), sensorValue)
        /\ request[i].path = url

C2_Witness == pc = "status" /\ Len(request) = 1 /\ iter = 1 /\ sensorValue = 20

\* C3: the loop never stops: while runs are observed some statement is
\* always enabled, and after n finished runs the next run issues its GET
\* and finishes too.
C3_NeverTerminates ==
    /\ [](iter < MaxIter => ENABLED Next)
    /\ \A n \in 0..(MaxIter - 1) :
          /\ (iter = n /\ pc = "random") ~> (iter = n /\ Len(gets) = n + 1)
          /\ (iter = n) ~> (iter = n + 1 /\ pc = "random")

C3_Witness == iter = 1 /\ pc = "get"

\* C4: a run of loop() whose GET failed still prints the status and body it
\* got, reaches the delay, and the delay hands over to the next run with
\* fresh locals and an untouched client configuration; the failure never
\* stops the sketch.
C4_FailureIgnored ==
    /\ [](/\ (pc = "delay" /\ Failed(Last(gets))) =>
                /\ Len(IterLines) = 4
                /\ IsPrefix(StatusLabel, IterLines[2])
                /\ IsSignedDecimalOf(Suffix(IterLines[2], Len(StatusLabel)),
                                     Last(gets).status)
                /\ IterLines[3] = ResponseLabel
                /\ IterLines[4] = Last(gets).body
          /\ (pc \in AfterGet /\ Failed(Last(gets))) => ENABLED Next
          /\ client.host = DweetHost /\ client.port = 80)
    /\ [][(pc = "delay" /\ Failed(Last(gets))) =>
             /\ pc' = "random"
             /\ now' = now + 5000
             /\ sensorValue' = 0 /\ url' = <<>> /\ statusCode' = 0
             /\ response' = <<>> /\ request' = <<>>]_vars
    /\ \A n \in 0..(MaxIter - 1) :
          (iter = n /\ Len(gets) = n + 1 /\ Failed(gets[n + 1]))
             ~> (iter = n + 1 /\ pc = "random")
    /\ \A n \in 0..(MaxIter - 2) :
          (iter = n /\ Len(gets) = n + 1 /\ Failed(gets[n + 1]))
             ~> (Len(gets) = n + 2)

C4_Witness == iter = 1 /\ pc = "status" /\ Failed(gets[1])

\* C5 (as stated): with status 200 and body {"ok":true}, one run of loop()
\* prints exactly the sending message, "200", "Response:" and {"ok":true}.
C5_LogsBare200 ==
    (pc = "delay" /\ Last(gets).status = 200 /\ Last(gets).body = OkTrueBody)
        => /\ IterLines = <<SendingMsg, Bare200, ResponseLabel, OkTrueBody>>
           /\ Serial.cur = <<>>

\* C5 (amended): with status 200 and body {"ok":true}, one run of loop()
\* prints exactly the sending message, the line "Status Code: 200",
\* "Response:" and {"ok":true}.
C5_LogsLabelled200 ==
    (pc = "delay" /\ Last(gets).status = 200 /\ Last(gets).body = OkTrueBody)
        => /\ IterLines =
                <<SendingMsg, StatusLine200, ResponseLabel, OkTrueBody>>
           /\ Serial.cur = <<>>

C5_Witness ==
    pc = "delay" /\ Last(gets).status = 200 /\ Last(gets).body = OkTrueBody

\* C6: exactly one GET per run of loop(), whatever its outcome: after n
\* finished runs n GETs have been issued, and a failed or non-2xx GET is
\* not issued again in the same run.
C6_OneGetPerIteration ==
    /\ Len(gets) = iter + (IF pc \in AfterGet THEN 1 ELSE 0)
    /\ Len(request) = (IF pc \in AfterGet THEN 1 ELSE 0)

C6_Witness ==
    iter = MaxIter /\ Len(gets) = MaxIter /\ Failed(gets[1])
        /\ gets[MaxIter].status = 404

\* C7: consecutive runs of loop() start at least 5000 ms plus the duration
\* of the earlier run's GET apart, and a GET is never issued before 5000 ms
\* have passed since the previous run printed its body.
C7_DelayBetweenIterations ==
    /\ \A k \in 2..Len(starts) :
          starts[k].at - starts[k - 1].at >= 5000 + gets[k - 1].dur
    /\ \A k \in 2..Len(gets) : gets[k].at >= logDone[k - 1] + 5000

C7_Witness == Len(gets) = 2 /\ gets[1].dur = MaxNetDelay /\ MaxNetDelay > 0

\* C8: the banner is the first line and is printed once, by setup(); every
\* later line belongs to a run of loop() and the lines of a run come in the
\* order sending message, status code line, "Response:", body.
C8_LogStructure ==
    /\ pc = "setup" => Serial.lines = <<>>
    /\ pc # "setup" =>
          /\ Len(Serial.lines) = 1 + 4 * iter + LinesAt(pc)
          /\ Serial.lines[1] = Banner
    /\ \A i \in 2..Len(Serial.lines) :
          LET k == ((i - 2) \div 4) + 1
              j == (i - 2) % 4
              l == Serial.lines[i]
          IN  CASE j = 0 -> l = SendingMsg
                [] j = 1 -> /\ k <= Len(gets)
                            /\ IsPrefix(StatusLabel, l)
                            /\ \E c \in {g.status : g \in Responses} :
                                  IsSignedDecimalOf(
                                      Suffix(l, Len(StatusLabel)), c)
                [] j = 2 -> l = ResponseLabel
                [] OTHER -> k <= Len(gets) /\ l \in {g.body : g \in Responses}

C8_Witness == iter = MaxIter /\ Len(Serial.lines) = 1 + 4 * MaxIter

\* C9: the status code and the body printed in a run of loop() are the
\* ones returned for the GET of that same run, unchanged, negative codes
\* and empty bodies included.
C9_LoggedVerbatim ==
    /\ pc \in {"body", "printStatus", "printLabel", "printBody", "delay"}
          => statusCode = gets[iter + 1].status
    /\ pc \in {"printStatus", "printLabel", "printBody", "delay"}
          => response = gets[iter + 1].body
    /\ \A k \in 1..Len(gets) :
          /\ 4 * k - 1 <= Len(Serial.lines) =>
                /\ IsPrefix(StatusLabel, Serial.lines[4 * k - 1])
                /\ IsSignedDecimalOf(
                       Suffix(Serial.lines[4 * k - 1], Len(StatusLabel)),
                       gets[k].status)
          /\ 4 * k + 1 <= Len(Serial.lines) =>
                Serial.lines[4 * k + 1] = gets[k].body

C9_Witness ==
    /\ iter = 1 /\ pc = "delay"
    /\ gets[1].status = 200
    /\ gets[2].status = 0 - 3 /\ gets[2].body = <<>>

\* C10: in every run of loop() the operations come in the order: sending
\* message, get, responseStatusCode, responseBody, the three prints; the
\* delay starts only after the body was printed; the client is touched by
\* the get statement only.
C10_ClientOrder ==
    /\ [](/\ IsPrefix(events, ClientOrder)
          /\ pc = "delay" => events = ClientOrder
          /\ pc \in AfterGet => IsPrefix(SubSeq(ClientOrder, 1, 2), events))
    /\ [][client' # client => (pc = "get" /\ pc' = "status")]_vars

C10_Witness == iter = 1 /\ pc = "delay" /\ events = ClientOrder

====
